---- MODULE Spec2Model ----
(***************************************************************************)
(* Model of app/routes.py: the Overpass mirror fallback (overpass_query),  *)
(* the parking-lot geometry pipeline (get_parking_lots_polygons: ring      *)
(* cleaning, degenerate-ring rejection, UTM zone selection) and the two    *)
(* routes built on it (/get_parking_lots and /map).                        *)
(*                                                                         *)
(* Five specifications share the module:                                   *)
(*   SpecClean  the ring cleaning applied to every non-empty raw ring      *)
(*   SpecUTM    the zone / EPSG selection applied to every centroid        *)
(*   SpecQuery  overpass_query against every combination of mirror        *)
(*              answers, one step per post and per pause                   *)
(*   Spec       one request through a route, one step per post, per pause  *)
(*              and per element                                            *)
(*   SpecStations  the same for every station answer and short lookups     *)
(* What the third-party libraries decide (HTTP answers, polygon validity,  *)
(* whether the projection raises, the projected area) is an input drawn    *)
(* from a bounded set.                                                     *)
(***************************************************************************)
EXTENDS Integers, Sequences, FiniteSets, TLC

VARIABLES
    \* ring cleaning (routes.py 145-153)
    raw_coords, coords, cstate,
    \* projection choice (routes.py 163-165)
    lon_c, lat_c, zone, epsg, ustate,
    \* overpass_query (routes.py 81-93): what the mirrors answer, the posts
    \* and pauses made and the outcome so far, and where the call stands
    \* ("posting": at session.post to the next mirror, "sleeping": in
    \* time.sleep(3), "finished": returned or raised)
    resps, qres, qstate,
    \* one request through /get_parking_lots or /map
    pc, route, station_locations, lat, lon, lookup, way_idx, elems_left,
    results, response,
    \* history of the request: how the station lookup ended, the
    \* overpass_query calls made, the calls on which every mirror failed
    \* (0 = the lookup, i = the i-th way of the lookup), the kind of the
    \* element handled by the last step, the areas of the well-formed
    \* elements handled so far, added up, and for every entry of results the
    \* position in the lookup of the way whose geometry answer it came from
    station_status, queries, failed, last_kind, accepted_area, entry_ways

cleanVars == <<raw_coords, coords, cstate>>
utmVars   == <<lon_c, lat_c, zone, epsg, ustate>>
queryVars == <<resps, qres, qstate>>
reqVars   == <<pc, route, station_locations, lat, lon, lookup, way_idx,
               elems_left, results, response, station_status, queries, failed,
               last_kind, accepted_area, entry_ways>>
vars      == <<cleanVars, utmVars, queryVars, reqVars>>

----------------------------------------------------------------------------
(* Bounds *)

MaxRawLen   == 5    \* longest raw ring cleaned under SpecClean
MaxWays     == 2    \* most ways a lookup answer lists
MaxElems    == 2    \* most elements a geometry answer lists
MaxArea     == 2    \* a polygon's rounded area is 1 or MaxArea
MaxStations == 2    \* most stations a station lookup matches
MaxLat      == 1    \* centroid latitudes range over -MaxLat..MaxLat
Resolution  == 2    \* centroid longitudes are multiples of 1/Resolution degree

\* (lon, lat) points a ring is made of
Points == {<<0, 0>>, <<1, 0>>, <<0, 1>>}

RECURSIVE SeqsUpTo(_, _)
SeqsUpTo(S, n) ==
    IF n = 0 THEN {<<>>}
    ELSE LET shorter == SeqsUpTo(S, n - 1)
         IN  shorter \cup {Append(s, x) : s \in {t \in shorter : Len(t) = n - 1}, x \in S}

----------------------------------------------------------------------------
(* Ring cleaning, routes.py 147-153 *)

\* for pt in raw_coords[1:]: if pt != coords[-1]: coords.append(pt)
RECURSIVE DedupFrom(_, _, _)
DedupFrom(raw, i, acc) ==
    IF i > Len(raw) THEN acc
    ELSE DedupFrom(raw, i + 1,
                   IF raw[i] # acc[Len(acc)] THEN Append(acc, raw[i]) ELSE acc)

\* if len(coords) > 2 and coords[0] == coords[-1]: coords.pop()
PopClosingLen3(c) ==
    IF Len(c) > 3 /\ c[1] = c[Len(c)] THEN SubSeq(c, 1, Len(c) - 1) ELSE c

PopClosing(c) ==
    IF Len(c) > 2 /\ c[1] = c[Len(c)] THEN SubSeq(c, 1, Len(c) - 1) ELSE c

\* coords = [raw_coords[0]] ... coords.pop(); raw is non-empty
CleanRing(raw) == PopClosing(DedupFrom(raw, 2, <<raw[1]>>))

\* if len(coords) < 3: continue
RingAcceptedFrom2(c) == Len(c) >= 2

RingAccepted(c) == Len(c) >= 3

----------------------------------------------------------------------------
(* Projection choice, routes.py 164-165 *)

\* int(x) for the rational x = n / d, d > 0: truncation toward zero
IntTrunc(n, d) == IF n >= 0 THEN n \div d ELSE -((-n) \div d)

\* zone = int((lon_c + 180) / 6) + 1, for lon_c = k / Resolution
UtmZoneNoOffset(k) == IntTrunc(k, 6 * Resolution) + 31

UtmZone(k) == IntTrunc(k + 180 * Resolution, 6 * Resolution) + 1

\* epsg = (32600 + zone) if lat_c >= 0 else (32700 + zone)
UtmEpsg(z, la) == IF la >= 0 THEN 32600 + z ELSE 32700 + z

----------------------------------------------------------------------------
(* overpass_query, routes.py 74-93 *)

OVERPASS_URLS == <<"lz4.overpass-api.de", "overpass.kumi.systems",
                   "overpass.openstreetmap.fr">>

\* What one session.post to a mirror can come to: the call raises (timeout,
\* connection error), or it answers with a status code and a body that
\* resp.json() either parses (json_ok) or raises on.
StatusCodes == {200, 429, 503}

\* A body is modelled by the list under its "elements" key
\* (data.get("elements", [])); NoJson stands for a body that was never parsed.
NoJson == <<>>

Raising == [exception |-> TRUE, status_code |-> 0, json_ok |-> FALSE, json |-> NoJson]

Answers(J) ==
    {Raising}
    \cup [exception : {FALSE}, status_code : StatusCodes, json_ok : {FALSE}, json : {NoJson}]
    \cup [exception : {FALSE}, status_code : StatusCodes, json_ok : {TRUE}, json : J]

\* One answer of each kind a request can tell apart: the call raises, a 429,
\* or a 200 with a body
PlainAnswers(J) ==
    {a \in Answers(J) :
        \/ a.exception
        \/ a.status_code = 429 /\ ~a.json_ok
        \/ a.status_code = 200 /\ a.json_ok}

\* resp.raise_for_status(): requests raises HTTPError for 4xx and 5xx
RaiseForStatusNever(resp) == FALSE

RaiseForStatus(resp) == resp.status_code >= 400 /\ resp.status_code < 600

\* One pass of the loop body for the mirror that answered resp:
\* "sleep" (429: time.sleep(3); continue), "continue" (an exception was
\* caught) or "return" (return resp.json())
Attempt(resp) ==
    IF resp.exception THEN "continue"
    ELSE IF resp.status_code = 429 THEN "sleep"
    ELSE IF RaiseForStatus(resp) THEN "continue"
    ELSE IF ~resp.json_ok THEN "continue"
    ELSE "return"

\* for url in OVERPASS_URLS: ... ; raise Exception("All Overpass servers failed
\* or timed out").  A call stands at [state, res]: res.posts lists the mirrors
\* posted to, in order, res.sleeps counts the 3-second pauses begun.
NoResult == [raised |-> FALSE, json |-> NoJson, posts |-> <<>>, sleeps |-> 0]

\* The loop moves on from mirror i: to the next post, or past the last mirror
\* to the raise
Continue(res, i) ==
    IF i < Len(OVERPASS_URLS)
    THEN [state |-> "posting", res |-> res]
    ELSE [state |-> "finished", res |-> [res EXCEPT !.raised = TRUE]]

\* session.post to the next mirror, which answers resp, up to the next point
\* where the call waits or ends
PostStep(res, resp) ==
    LET i == Len(res.posts) + 1
        p == [res EXCEPT !.posts = Append(@, OVERPASS_URLS[i])]
        a == Attempt(resp)
    IN  IF a = "return"
        THEN [state |-> "finished", res |-> [p EXCEPT !.json = resp.json]]
        ELSE IF a = "sleep"
        THEN [state |-> "sleeping", res |-> [p EXCEPT !.sleeps = @ + 1]]
        ELSE Continue(p, i)

\* time.sleep(3) returns; continue
SleepStep(res) == Continue(res, Len(res.posts))

MirrorAnswers(J) == [1..Len(OVERPASS_URLS) -> Answers(J)]

----------------------------------------------------------------------------
(* get_parking_lots_polygons, routes.py 95-180 *)

\* Answers to the lookup query: lists of distinct way ids, here k, ..., 1
LookupLists == {[i \in 1..k |-> k + 1 - i] : k \in 0..MaxWays}

\* Answers to a geometry query: a list of elements; what an element holds is
\* read when the loop reaches it (ProcessElement)
Slot == "element"
GeomLists == SeqsUpTo({Slot}, MaxElems)

\* What a mirror answers to a lookup query and to a geometry query
LookupAnswers == {a : a \in PlainAnswers(LookupLists)}

GeomAnswers == {a : a \in PlainAnswers(GeomLists)}

\* The "id" of an element: the id of a way, or NoId when the key is absent
NoId == 0

ElementIds == 1..MaxWays

\* An element of a geometry answer: whether it has a "geometry" key, its
\* points, what shapely and pyproj make of the cleaned ring (poly.is_valid,
\* whether Transformer/transform raise, round(area, 2)), its "id" and
\* whether it has a "type" key; the fields the code does not get to read are
\* held at one value
ElementsOver(rings) ==
    {e \in [has_geometry : BOOLEAN, geometry : rings, valid : BOOLEAN,
            proj_ok : BOOLEAN, area : {1, MaxArea},
            id : {NoId} \cup ElementIds, has_type : BOOLEAN] :
        LET read == /\ e.has_geometry
                    /\ e.geometry # <<>>
                    /\ RingAccepted(CleanRing(e.geometry))
        IN  /\ ~e.has_geometry => e.geometry = <<>>
            /\ ~read => e.valid
            /\ ~e.valid => e.proj_ok
            /\ ~read \/ ~e.valid \/ ~e.proj_ok => e.id = NoId
            /\ e.id = NoId => e.has_type
            /\ e.id = NoId \/ ~e.has_type => e.area = 1}

\* The rings of a request: empty, a point, a doubled point, a ring that is 2
\* points once its closing point is dropped, a triangle given open, and given
\* closed with a doubled point
SampleRings ==
    {<<>>,
     <<<<0, 0>>>>,
     <<<<0, 0>>, <<0, 0>>>>,
     <<<<0, 0>>, <<1, 0>>, <<0, 0>>>>,
     <<<<0, 0>>, <<1, 0>>, <<0, 1>>>>,
     <<<<0, 0>>, <<1, 0>>, <<1, 0>>, <<0, 1>>, <<0, 0>>>>}

SampleElements == {e : e \in ElementsOver(SampleRings)}

\* The body of the loop over geom_data["elements"] for one element: "skip"
\* (a continue), "IndexError" (raw_coords[0] on an empty list, outside any
\* try), "KeyError" (element["id"] or element["type"] of an absent key in the
\* appended dict, outside any try) or "append" with the entry appended to
\* results, whose id is the element's
ElementOutcome(e) ==
    IF ~e.has_geometry THEN [kind |-> "skip"]
    ELSE IF e.geometry = <<>> THEN [kind |-> "IndexError"]
    ELSE LET c == CleanRing(e.geometry)
         IN  IF ~RingAccepted(c) THEN [kind |-> "skip"]
             ELSE IF ~e.valid THEN [kind |-> "skip"]
             ELSE IF ~e.proj_ok THEN [kind |-> "skip"]
             ELSE IF e.id = NoId \/ ~e.has_type THEN [kind |-> "KeyError"]
             ELSE [kind |-> "append",
                   entry |-> [id |-> e.id, coordinates |-> c, area_m2 |-> e.area]]

----------------------------------------------------------------------------
(* Routes, routes.py 274-331 *)

Routes == {"get_parking_lots", "map"}

\* (lat, lon) of the stations a lookup can match
Coordinates == {<<10 * i, 20 * i>> : i \in 1..MaxStations}

\* get_metro_station_location: raises when the status is not 200, else the
\* list of matches (lat, lon), which are distinct nodes
StationAnswers ==
    [raised : {TRUE}, locations : {<<>>}]
    \cup [raised : {FALSE},
          locations : {l \in SeqsUpTo(Coordinates, MaxStations) :
                          \A i, j \in 1..Len(l) : i # j => l[i] # l[j]}]

\* The same with at most one match
SingleStationAnswers ==
    {s : s \in {st \in StationAnswers : Len(st.locations) <= 1}}

NoResponse == [status |-> 0, body |-> "none", total_area_m2 |-> 0]

\* Flask answers an exception that leaves a view with status 500
Unhandled(exc) == [status |-> 500, body |-> exc, total_area_m2 |-> 0]

\* lat = station_locations[0]['lat']; lon = station_locations[0]['lon']
LastStation(locs) == locs[Len(locs)]

FirstStation(locs) == locs[1]

\* if not station_locations: return ..., 404
StationNotFound == [status |-> 404, body |-> "station_not_found", total_area_m2 |-> 0]

\* sum(lot['area_m2'] for lot in parking_lots)
RECURSIVE SumAreaFrom(_, _, _)
SumAreaFrom(lots, i, acc) ==
    IF i > Len(lots) THEN acc ELSE SumAreaFrom(lots, i + 1, acc + lots[i].area_m2)

TotalAreaSkipFirst(lots) == SumAreaFrom(lots, 2, 0)

TotalArea(lots) == SumAreaFrom(lots, 1, 0)

\* What a route does with the list get_parking_lots_polygons returned:
\* /get_parking_lots (293-301) answers 404 on an empty list, else the total;
\* /map (322-331) unpacks zip(*poly_area) into two names, which raises
\* ValueError on an empty list, else renders the map
NoDataBelowTwo(r, lots) ==
    IF r = "get_parking_lots"
    THEN IF Len(lots) < 2
         THEN [status |-> 404, body |-> "no_data", total_area_m2 |-> 0]
         ELSE [status |-> 200, body |-> "total", total_area_m2 |-> TotalArea(lots)]
    ELSE IF lots = <<>> THEN Unhandled("ValueError")
         ELSE [status |-> 200, body |-> "map", total_area_m2 |-> 0]

RouteResponse(r, lots) ==
    IF r = "get_parking_lots"
    THEN IF lots = <<>>
         THEN [status |-> 404, body |-> "no_data", total_area_m2 |-> 0]
         ELSE [status |-> 200, body |-> "total", total_area_m2 |-> TotalArea(lots)]
    ELSE IF lots = <<>> THEN Unhandled("ValueError")
         ELSE [status |-> 200, body |-> "map", total_area_m2 |-> 0]

----------------------------------------------------------------------------
(* Initial values of the parts a specification does not run *)

CleanOff == raw_coords = <<>> /\ coords = <<>> /\ cstate = "off"

UtmOff == lon_c = 0 /\ lat_c = 0 /\ zone = 0 /\ epsg = 0 /\ ustate = "off"

QueryOff == resps = <<>> /\ qres = NoResult /\ qstate = "off"

RequestOff ==
    /\ pc = "off" /\ route = "none" /\ station_locations = <<>>
    /\ lat = 0 /\ lon = 0 /\ lookup = <<>> /\ way_idx = 0 /\ elems_left = 0
    /\ results = <<>> /\ response = NoResponse
    /\ station_status = "none" /\ queries = 0 /\ failed = {} /\ last_kind = "none"
    /\ accepted_area = 0 /\ entry_ways = <<>>

----------------------------------------------------------------------------
(* SpecClean: the cleaning of one raw ring *)

InitClean ==
    /\ raw_coords \in SeqsUpTo(Points, MaxRawLen) \ {<<>>}
    /\ coords = <<>>
    /\ cstate = "raw"
    /\ UtmOff /\ QueryOff /\ RequestOff

CleanCoords ==
    /\ cstate = "raw"
    /\ coords' = CleanRing(raw_coords)
    /\ cstate' = "cleaned"
    /\ UNCHANGED <<raw_coords, utmVars, queryVars, reqVars>>

NextClean == CleanCoords

SpecClean == InitClean /\ [][NextClean]_vars

----------------------------------------------------------------------------
(* SpecUTM: the projection chosen for one centroid; lon_c holds the
   longitude in units of 1/Resolution degree, lat_c the latitude in degrees *)

InitUTM ==
    /\ lon_c \in (-180 * Resolution)..(180 * Resolution)
    /\ lat_c \in (-MaxLat)..MaxLat
    /\ zone = 0 /\ epsg = 0
    /\ ustate = "centroid"
    /\ CleanOff /\ QueryOff /\ RequestOff

ChooseProjection ==
    /\ ustate = "centroid"
    /\ zone' = UtmZone(lon_c)
    /\ epsg' = UtmEpsg(UtmZone(lon_c), lat_c)
    /\ ustate' = "chosen"
    /\ UNCHANGED <<lon_c, lat_c, cleanVars, queryVars, reqVars>>

NextUTM == ChooseProjection

SpecUTM == InitUTM /\ [][NextUTM]_vars

----------------------------------------------------------------------------
(* SpecQuery: one call of overpass_query against mirrors that answer resps *)

Bodies == {<<1>>, <<2>>}

InitQuery ==
    /\ resps \in MirrorAnswers(Bodies)
    /\ qres = NoResult
    /\ qstate = "posting"
    /\ CleanOff /\ UtmOff /\ RequestOff

\* 83-91: one pass of the loop body, up to the pause, the return or the next
\* post
QueryPost ==
    /\ qstate = "posting"
    /\ LET n == PostStep(qres, resps[Len(qres.posts) + 1])
       IN  qres' = n.res /\ qstate' = n.state
    /\ UNCHANGED <<resps, cleanVars, utmVars, reqVars>>

\* 87-88: the pause after a 429 ends
QuerySleep ==
    /\ qstate = "sleeping"
    /\ LET n == SleepStep(qres)
       IN  qres' = n.res /\ qstate' = n.state
    /\ UNCHANGED <<resps, cleanVars, utmVars, reqVars>>

NextQuery == QueryPost \/ QuerySleep

SpecQuery == InitQuery /\ [][NextQuery]_vars

----------------------------------------------------------------------------
(* Spec: one request, through /get_parking_lots or /map *)

Init ==
    /\ pc = "idle" /\ route = "none" /\ station_locations = <<>>
    /\ lat = 0 /\ lon = 0 /\ lookup = <<>> /\ way_idx = 0 /\ elems_left = 0
    /\ results = <<>> /\ response = NoResponse
    /\ station_status = "none" /\ queries = 0 /\ failed = {} /\ last_kind = "none"
    /\ accepted_area = 0 /\ entry_ways = <<>>
    /\ CleanOff /\ UtmOff /\ QueryOff

\* get_parking_lots 276-288 / generate_map 305-316: the station lookup
HandleRequest(r, st) ==
    /\ pc = "idle"
    /\ route' = r
    /\ station_locations' = st.locations
    /\ station_status' = IF st.raised THEN "raised" ELSE "returned"
    /\ IF st.raised
       THEN /\ response' = Unhandled("Exception")
            /\ pc' = "done"
            /\ UNCHANGED <<lat, lon>>
       ELSE IF st.locations = <<>>
       THEN /\ response' = StationNotFound
            /\ pc' = "done"
            /\ UNCHANGED <<lat, lon>>
       ELSE /\ lat' = FirstStation(st.locations)[1]
            /\ lon' = FirstStation(st.locations)[2]
            /\ pc' = "phaseA"
            /\ UNCHANGED response
    /\ UNCHANGED <<lookup, way_idx, elems_left, results, queries, failed, last_kind,
                   accepted_area, entry_ways>>

\* The overpass_query call under way takes one step to stand at n; a call
\* that ends leaves nothing behind
QueryMoves(n) ==
    /\ qstate' = IF n.state = "finished" THEN "off" ELSE n.state
    /\ qres' = IF n.state = "finished" THEN NoResult ELSE n.res
    /\ queries' = IF qstate = "off" THEN queries + 1 ELSE queries
    /\ UNCHANGED resps

\* get_parking_lots_polygons 122-124: one step of the lookup query, which
\* leaves the call at n; its exception is not caught by the function nor by
\* the route
LookupStep(n) ==
    /\ pc = "phaseA"
    /\ QueryMoves(n)
    /\ IF n.state # "finished"
       THEN UNCHANGED <<failed, response, pc, lookup, way_idx, results>>
       ELSE IF n.res.raised
       THEN /\ failed' = failed \cup {0}
            /\ response' = Unhandled("Exception")
            /\ pc' = "done"
            /\ UNCHANGED <<lookup, way_idx, results>>
       ELSE /\ lookup' = n.res.json
            /\ results' = <<>>
            /\ way_idx' = 1
            /\ pc' = "phaseB"
            /\ UNCHANGED <<failed, response>>
    /\ UNCHANGED <<route, station_locations, lat, lon, elems_left, station_status,
                   last_kind, accepted_area, entry_ways>>

\* a post of the lookup query, answered resp
PhaseA(resp) ==
    /\ qstate \in {"off", "posting"}
    /\ LookupStep(PostStep(qres, resp))

\* a pause of the lookup query ends
PhaseASleep ==
    /\ qstate = "sleeping"
    /\ LookupStep(SleepStep(qres))

\* 127-141: one step of the geometry query of the next way, which leaves the
\* call at n; on an exception, continue
GeometryStep(n) ==
    /\ pc = "phaseB"
    /\ elems_left = 0
    /\ way_idx <= Len(lookup)
    /\ QueryMoves(n)
    /\ IF n.state # "finished"
       THEN UNCHANGED <<failed, way_idx, elems_left>>
       ELSE IF n.res.raised
       THEN /\ failed' = failed \cup {way_idx}
            /\ way_idx' = way_idx + 1
            /\ UNCHANGED elems_left
       ELSE /\ elems_left' = Len(n.res.json)
            /\ way_idx' = IF Len(n.res.json) = 0 THEN way_idx + 1 ELSE way_idx
            /\ UNCHANGED failed
    /\ last_kind' = "none"
    /\ UNCHANGED <<pc, route, station_locations, lat, lon, lookup, results, response,
                   station_status, accepted_area, entry_ways>>

\* a post of the geometry query, answered resp
FetchGeometry(resp) ==
    /\ qstate \in {"off", "posting"}
    /\ GeometryStep(PostStep(qres, resp))

\* a pause of the geometry query ends
FetchGeometrySleep ==
    /\ qstate = "sleeping"
    /\ GeometryStep(SleepStep(qres))

\* What the ring cleaning is to produce, stated on the raw ring: the points
\* that start a run of equal points, in order, without the last of them when
\* it closes a ring of more than 2
RunStarts(raw) == {i \in 1..Len(raw) : i = 1 \/ raw[i] # raw[i - 1]}

Collapsed(raw) ==
    [k \in 1..Cardinality(RunStarts(raw)) |->
        raw[CHOOSE i \in RunStarts(raw) : Cardinality({j \in RunStarts(raw) : j < i}) = k - 1]]

ExpectedRing(raw) ==
    LET c == Collapsed(raw)
        n == Len(c)
    IN  IF n > 2 /\ c[1] = c[n] THEN [k \in 1..(n - 1) |-> c[k]] ELSE c

\* The kind of an element, read off the element itself
ElementKind(e) ==
    IF ~e.has_geometry THEN "no_geometry"
    ELSE IF e.geometry = <<>> THEN "empty_geometry"
    ELSE IF Len(ExpectedRing(e.geometry)) < 3 THEN "short_ring"
    ELSE IF ~e.valid THEN "invalid_polygon"
    ELSE IF ~e.proj_ok THEN "projection_failed"
    ELSE IF e.id = NoId \/ ~e.has_type THEN "missing_key"
    ELSE "well_formed"

Degenerate == {"no_geometry", "empty_geometry", "short_ring", "invalid_polygon",
               "projection_failed"}

\* 141-178: one element of the geometry answer of the way_idx-th way
ProcessElement(e) ==
    /\ pc = "phaseB"
    /\ elems_left > 0
    /\ last_kind' = ElementKind(e)
    /\ accepted_area' = IF ElementKind(e) = "well_formed" THEN accepted_area + e.area
                        ELSE accepted_area
    /\ LET o == ElementOutcome(e)
       IN  IF o.kind \in {"IndexError", "KeyError"}
           THEN /\ response' = Unhandled(o.kind)
                /\ pc' = "done"
                /\ UNCHANGED <<results, entry_ways, elems_left, way_idx>>
           ELSE /\ results' = IF o.kind = "append" THEN Append(results, o.entry)
                              ELSE results
                /\ entry_ways' = IF o.kind = "append" THEN Append(entry_ways, way_idx)
                                 ELSE entry_ways
                /\ elems_left' = elems_left - 1
                /\ way_idx' = IF elems_left = 1 THEN way_idx + 1 ELSE way_idx
                /\ UNCHANGED <<response, pc>>
    /\ UNCHANGED <<route, station_locations, lat, lon, lookup, station_status,
                   queries, failed>>

\* 180 and the rest of the route: return results, then the route's answer
ReturnResults ==
    /\ pc = "phaseB"
    /\ elems_left = 0
    /\ way_idx > Len(lookup)
    /\ response' = RouteResponse(route, results)
    /\ pc' = "done"
    /\ last_kind' = "none"
    /\ UNCHANGED <<route, station_locations, lat, lon, lookup, way_idx, elems_left,
                   results, station_status, queries, failed, accepted_area,
                   entry_ways>>

\* Station answers of at most one match, every lookup and geometry list; a
\* geometry answer holds elements of the way asked for, or without an id
Next ==
    \/ \E r \in Routes, st \in SingleStationAnswers :
          HandleRequest(r, st) /\ UNCHANGED <<cleanVars, utmVars, queryVars>>
    \/ \E resp \in LookupAnswers :
          PhaseA(resp) /\ UNCHANGED <<cleanVars, utmVars>>
    \/ PhaseASleep /\ UNCHANGED <<cleanVars, utmVars>>
    \/ \E resp \in GeomAnswers :
          FetchGeometry(resp) /\ UNCHANGED <<cleanVars, utmVars>>
    \/ FetchGeometrySleep /\ UNCHANGED <<cleanVars, utmVars>>
    \/ /\ pc = "phaseB" /\ elems_left > 0
       /\ \E e \in {x \in SampleElements : x.id \in {NoId, lookup[way_idx]}} :
             ProcessElement(e) /\ UNCHANGED <<cleanVars, utmVars, queryVars>>
    \/ ReturnResults /\ UNCHANGED <<cleanVars, utmVars, queryVars>>

Spec == Init /\ [][Next]_vars

\* Every station answer, lookups of at most one way, elements of every id
ShortLookupLists == {l \in LookupLists : Len(l) <= 1}

ShortLookupAnswers == {a : a \in PlainAnswers(ShortLookupLists)}

NextStations ==
    \/ \E r \in Routes, st \in StationAnswers :
          HandleRequest(r, st) /\ UNCHANGED <<cleanVars, utmVars, queryVars>>
    \/ \E resp \in ShortLookupAnswers :
          PhaseA(resp) /\ UNCHANGED <<cleanVars, utmVars>>
    \/ PhaseASleep /\ UNCHANGED <<cleanVars, utmVars>>
    \/ \E resp \in GeomAnswers :
          FetchGeometry(resp) /\ UNCHANGED <<cleanVars, utmVars>>
    \/ FetchGeometrySleep /\ UNCHANGED <<cleanVars, utmVars>>
    \/ \E e \in SampleElements :
          ProcessElement(e) /\ UNCHANGED <<cleanVars, utmVars, queryVars>>
    \/ ReturnResults /\ UNCHANGED <<cleanVars, utmVars, queryVars>>

SpecStations == Init /\ [][NextStations]_vars

----------------------------------------------------------------------------
(* Properties *)

\* C1 (SpecClean): the cleaned ring is the raw ring with every run of equal
\* consecutive points collapsed to its first point and with the last point
\* dropped when it equals the first and more than 2 points remain; it has no
\* two equal adjacent points and, with 3 or more points, its last point
\* differs from its first.
C1_RingCleaned ==
    cstate = "cleaned" =>
        /\ coords = ExpectedRing(raw_coords)
        /\ \A i \in 1..(Len(coords) - 1) : coords[i] # coords[i + 1]
        /\ Len(coords) >= 3 => coords[Len(coords)] # coords[1]

\* a raw ring with a doubled point and a closing point, cleaned to 3 points
C1_Witness ==
    /\ cstate = "cleaned"
    /\ Len(raw_coords) = 5
    /\ raw_coords[1] = raw_coords[Len(raw_coords)]
    /\ \E i \in 1..(Len(raw_coords) - 1) : raw_coords[i] = raw_coords[i + 1]
    /\ Len(coords) = 3

\* C2 (Spec): every entry of results always has a ring of at least 3
\* points, and a step that handles an element whose cleaned ring has fewer
\* than 3 points leaves results as it was.
C2_ShortRingsRejected ==
    [][/\ \A i \in 1..Len(results') : Len(results'[i].coordinates) >= 3
       /\ last_kind' = "short_ring" => results' = results]_vars

\* a list was returned with an entry in it, after a short ring was handled
\* last under the same way
C2_Witness ==
    /\ pc = "phaseB"
    /\ last_kind = "short_ring"
    /\ Len(results) = 1
    /\ way_idx > Len(lookup)

\* C3 (SpecUTM): for a centroid with -180 <= lon <= 180 the zone chosen is
\* floor((lon + 180) / 6) + 1, the one zone z with
\* 6(z - 1) <= lon + 180 < 6z, and the EPSG code is 32600 + zone for lat >= 0
\* and 32700 + zone for lat < 0.
C3_UtmSelection ==
    ustate = "chosen" =>
        /\ 6 * Resolution * (zone - 1) <= lon_c + 180 * Resolution
        /\ lon_c + 180 * Resolution < 6 * Resolution * zone
        /\ zone = ((lon_c + 180 * Resolution) \div (6 * Resolution)) + 1
        /\ lat_c >= 0 => epsg = 32600 + zone
        /\ lat_c < 0 => epsg = 32700 + zone

\* a southern centroid west of Greenwich, strictly inside its zone
C3_Witness ==
    /\ ustate = "chosen"
    /\ lon_c < 0
    /\ lon_c % (6 * Resolution) # 0
    /\ lat_c < 0
    /\ epsg > 32700

\* C4 (Spec): whenever /get_parking_lots answers successfully, total_area_m2
\* is the sum of area_m2 over the entries of the returned list, which is the
\* sum of the areas of the well-formed elements handled, each once.
RECURSIVE AreaByValue(_, _)
AreaByValue(lots, a) ==
    IF a = 0 THEN 0
    ELSE a * Cardinality({i \in 1..Len(lots) : lots[i].area_m2 = a})
         + AreaByValue(lots, a - 1)

C4_TotalIsSum ==
    response.body = "total" =>
        /\ response.status = 200
        /\ response.total_area_m2 = AreaByValue(results, MaxArea)
        /\ response.total_area_m2 = accepted_area

\* a total over two lots of different areas
C4_Witness ==
    /\ response.body = "total"
    /\ Len(results) >= 2
    /\ results[1].area_m2 # results[2].area_m2

\* C5 (SpecQuery): overpass_query posts to the mirrors in list order, at most
\* once each and only while every mirror before failed, pauses once per 429,
\* returns the body of the first mirror that answers with neither an
\* exception nor a 429 nor an error status and parses, and raises exactly
\* when every mirror failed; it makes at most Len(OVERPASS_URLS) attempts.
MirrorSucceeds(resp) ==
    /\ ~resp.exception
    /\ resp.status_code \notin {429, 503}
    /\ resp.json_ok

C5_MirrorFallback ==
    qstate # "off" =>
        LET n    == Len(OVERPASS_URLS)
            good == {i \in 1..n : MirrorSucceeds(resps[i])}
            k    == Len(qres.posts)
        IN  /\ k <= n
            /\ qres.posts = SubSeq(OVERPASS_URLS, 1, k)
            /\ \A i \in good : k <= i
            /\ qres.sleeps =
                  Cardinality({i \in 1..k : ~resps[i].exception /\ resps[i].status_code = 429})
            /\ qstate = "posting" => k < n /\ ~qres.raised /\ qres.json = NoJson
            /\ qstate = "sleeping" =>
                  /\ ~resps[k].exception /\ resps[k].status_code = 429
                  /\ ~qres.raised /\ qres.json = NoJson
            /\ qstate = "finished" =>
                  /\ qres.raised <=> good = {}
                  /\ qres.raised => k = n
                  /\ ~qres.raised => k \in good /\ qres.json = resps[k].json

\* the third mirror answered after a 429, its pause, and an error status
\* with a body
C5_Witness ==
    /\ qstate = "finished"
    /\ ~qres.raised
    /\ Len(qres.posts) = 3
    /\ qres.sleeps = 1
    /\ \E i \in 1..2 : resps[i].status_code = 503 /\ resps[i].json_ok

\* C6 (Spec): a step that handles a malformed or degenerate element adds no
\* entry, raises nothing and leaves the loop running.
C6_SilentlySkipped ==
    [][last_kind' \in Degenerate =>
          /\ results' = results
          /\ response' = response
          /\ pc' = "phaseB"]_vars

\* C7 (SpecStations): when the station lookup returns no match the request ends with
\* status 404 and no parking-lot query was made; when it returns matches, the
\* coordinates used are those of the first; no parking-lot query is made
\* without a match.
C7_StationNotFound ==
    /\ station_status = "returned" /\ station_locations = <<>> =>
          /\ pc = "done"
          /\ response.status = 404
          /\ response.body = "station_not_found"
          /\ queries = 0
    /\ station_status = "returned" /\ station_locations # <<>> =>
          /\ lat = station_locations[1][1]
          /\ lon = station_locations[1][2]
          /\ response.body # "station_not_found"
    /\ queries > 0 => station_status = "returned" /\ station_locations # <<>>

\* /map answered 404 for a station without match
C7_Witness ==
    /\ route = "map"
    /\ station_status = "returned"
    /\ station_locations = <<>>
    /\ response.status = 404

\* get_parking_lots_polygons returned its list
Returned == pc = "done" /\ queries > 0 /\ 0 \notin failed /\ elems_left = 0

\* C8 (Spec): when the lookup fails on every mirror the exception leaves the
\* function and no list is returned; when the geometry query of a way fails
\* on every mirror, that way alone is left out: the request still fetches
\* every other way and returns a list, whose entries follow the order of the
\* lookup.
C8_FailureIsolation ==
    /\ 0 \in failed =>
          pc = "done" /\ response = Unhandled("Exception") /\ results = <<>>
    /\ pc = "done" /\ failed \cap (1..MaxWays) # {} =>
          /\ Returned
          /\ way_idx > Len(lookup)
          /\ queries = 1 + Len(lookup)
    /\ \A i \in 1..Len(results) :
          /\ entry_ways[i] \notin failed
          /\ \A j \in 1..Len(results) : i < j => entry_ways[i] <= entry_ways[j]

\* C9 as stated (Spec): the 'no data found' 404 is answered only when every
\* parking-lot query of the request was answered.
C9_DistinctOutcomes ==
    response.body = "no_data" => failed = {}

\* C9 amended (Spec): the 'no data found' 404 is answered only by
\* /get_parking_lots, when the lookup query was answered and the returned
\* list is empty; a request whose lookup query failed on every mirror ends in
\* the unhandled exception, never in that 404.
C9_LookupAnswered ==
    /\ response.body = "no_data" =>
          /\ response.status = 404
          /\ route = "get_parking_lots"
          /\ Returned
          /\ results = <<>>
    /\ 0 \in failed => response = Unhandled("Exception")

\* 'no data found' although the geometry query of a way failed on every mirror
C9_Witness ==
    /\ response.body = "no_data"
    /\ failed # {}

\* C10 (Spec): when the station is found and get_parking_lots_polygons
\* returns an empty list, /map ends in the 'no data found' 404.
C10_MapNoData ==
    route = "map" /\ Returned /\ results = <<>> =>
        response.status = 404 /\ response.body = "no_data"

====
